---- MODULE Spec2Model ----
(***************************************************************************)
(* A model of src/main.py of email-to-pdf: the filename sanitizer, the     *)
(* IMAP filter derivation, the renderer adapter's error classification,    *)
(* the per-message loop of process_email and the run driver main.          *)
(*                                                                         *)
(* Four specifications share the variables:                                *)
(*   SanSpec     sanitize_filename applied to bounded strings              *)
(*   FilterSpec  get_imap_filter applied to every directive and override   *)
(*   Spec        one run of main -> process_email on a bounded mailbox     *)
(*   LiveSpec    main run again and again (a scheduler) with no fatal      *)
(*               error, under weak fairness                                *)
(***************************************************************************)
EXTENDS Integers, Sequences, FiniteSets

VARIABLES
    \* --- sanitize_filename ---
    filename,        \* the argument, a sequence of code points
    sanitized,       \* sanitize_filename(filename)
    resanitized,     \* sanitize_filename(sanitized)
    sanPhase,        \* "in", "once", "twice", or "off" in the other specifications
    \* --- get_imap_filter ---
    fDirective,      \* the mail_message_flag argument, <<flag, state>>
    fOverride,       \* the IMAP_FILTER environment variable
    fResult,         \* what the call did: returned a criteria or raised
    fPhase,          \* "in", "out", or "off"
    \* --- the environment of a run ---
    envFlag,         \* MAIL_MESSAGE_FLAG
    envFilter,       \* IMAP_FILTER
    num_emails_limit,
    attachments,     \* attachments[uid]: msg.attachments is non-empty
    content,         \* content[uid]: "good" or "bad" (LiveSpec: renderer's verdict)
    \* --- the mail server ---
    folder,          \* folder[uid]: "src" or "tgt"
    flags,           \* flags[uid]: the set of IMAP flags of the message
    flags0,          \* flags at the start of the run
    \* --- the run ---
    pc,
    mail_msg_flag,
    filter_criteria,
    session,         \* "none", "open", "closed"
    batch,           \* the uids the search returned, in fetch order
    idx,             \* position of the loop in batch
    exc,             \* what process_email raised: "none", "EmailProcessingError", "ValueError"
    failure,         \* where the run failed: [step, at]
    mainResult,      \* "running", "returned", "raised"
    log,             \* main's message for a top-level failure
    rendered,        \* rendered[uid]: what html_to_pdf's renderer call did in this run
    pdfs,            \* the uids whose PDF is in the output directory
    flagCalls,       \* uids mailbox.flag was called for in this run
    moveCalls        \* uids mailbox.move was called for in this run

sanVars == <<filename, sanitized, resanitized, sanPhase>>
filterVars == <<fDirective, fOverride, fResult, fPhase>>
envVars == <<envFlag, envFilter, num_emails_limit, attachments, content>>
serverVars == <<folder, flags>>
runVars == <<flags0, pc, mail_msg_flag, filter_criteria, session, batch, idx, exc,
             failure, mainResult, log, rendered, pdfs, flagCalls, moveCalls>>
vars == <<sanVars, filterVars, envVars, serverVars, runVars>>

\* Python's None.
None == "None"

(***************************************************************************)
(* Bounds.                                                                 *)
(***************************************************************************)
MaxLen == 3
NumMsgs == 3

Msgs == 1..NumMsgs

(***************************************************************************)
(* sanitize_filename (lines 21, 33-37).  Strings are sequences of Unicode  *)
(* code points.                                                            *)
(***************************************************************************)
\* "/", "*", ":", "<", ">", "|", '"', U+2019, U+2013
BAD_CHARACTERS ==
    << <<47>>, <<42>>, <<58>>, <<60>>, <<62>>, <<124>>, <<34>>, <<8217>>, <<8211>> >>

\* "_"
Underscore == 95

\* The code points the bounded strings are drawn from: the denylist, "_", "a", " ".
Alphabet == {47, 42, 58, 60, 62, 124, 34, 8217, 8211, 95, 97, 32}

RECURSIVE StrReplace(_, _, _)
\* str.replace(old, new): every non-overlapping occurrence of old, left to right.
StrReplace(s, old, new) ==
    IF Len(s) < Len(old) THEN s
    ELSE IF SubSeq(s, 1, Len(old)) = old
         THEN new \o StrReplace(SubSeq(s, Len(old) + 1, Len(s)), old, new)
         ELSE <<Head(s)>> \o StrReplace(Tail(s), old, new)

RECURSIVE SanitizeLoop(_, _)
\* The for loop of sanitize_filename from BAD_CHARACTERS[k] on.
SanitizeLoop(name, k) ==
    IF k > Len(BAD_CHARACTERS) THEN name
    ELSE SanitizeLoop(StrReplace(name, BAD_CHARACTERS[k], <<Underscore>>), k + 1)

\* A plausible bug: denylisted characters are removed instead of replaced.
sanitize_filename_strip(name) ==
    LET RECURSIVE Strip(_, _)
        Strip(n, k) == IF k > Len(BAD_CHARACTERS) THEN n
                       ELSE Strip(StrReplace(n, BAD_CHARACTERS[k], <<>>), k + 1)
    IN Strip(name, 1)

sanitize_filename(name) == SanitizeLoop(name, 1)

Strings(n) == UNION {[1..k -> Alphabet] : k \in 0..n}

SanOff ==
    /\ filename = <<>>
    /\ sanitized = <<>>
    /\ resanitized = <<>>
    /\ sanPhase = "off"

FilterOff ==
    /\ fDirective = <<"", FALSE>>
    /\ fOverride = None
    /\ fResult = [raised |-> FALSE, value |-> [key |-> "", val |-> ""]]
    /\ fPhase = "off"

RunOff ==
    /\ envFlag = None
    /\ envFilter = None
    /\ num_emails_limit = 0
    /\ attachments = <<>>
    /\ content = <<>>
    /\ folder = <<>>
    /\ flags = <<>>
    /\ flags0 = <<>>
    /\ pc = "off"
    /\ mail_msg_flag = <<"", FALSE>>
    /\ filter_criteria = [key |-> "", val |-> ""]
    /\ session = "none"
    /\ batch = <<>>
    /\ idx = 0
    /\ exc = "none"
    /\ failure = [step |-> "none", at |-> 0]
    /\ mainResult = "running"
    /\ log = "none"
    /\ rendered = <<>>
    /\ pdfs = {}
    /\ flagCalls = {}
    /\ moveCalls = {}

SanInit ==
    /\ filename \in Strings(MaxLen)
    /\ sanitized = <<>>
    /\ resanitized = <<>>
    /\ sanPhase = "in"
    /\ FilterOff
    /\ RunOff

\* sanitize_filename(filename)
Sanitize ==
    /\ sanPhase = "in"
    /\ sanitized' = sanitize_filename(filename)
    /\ sanPhase' = "once"
    /\ UNCHANGED <<filename, resanitized, filterVars, envVars, serverVars, runVars>>

\* sanitize_filename applied to its own result
SanitizeAgain ==
    /\ sanPhase = "once"
    /\ resanitized' = sanitize_filename(sanitized)
    /\ sanPhase' = "twice"
    /\ UNCHANGED <<filename, sanitized, filterVars, envVars, serverVars, runVars>>

SanNext == Sanitize \/ SanitizeAgain

SanSpec == SanInit /\ [][SanNext]_vars

BadCodePoints == {BAD_CHARACTERS[k][1] : k \in 1..Len(BAD_CHARACTERS)}

\* C8: the output of sanitize_filename holds no denylisted character, is as
\* long as the input, differs from it only where the input held a denylisted
\* character (an underscore there), and sanitizing it again changes nothing.
C8_Sanitize ==
    /\ sanPhase \in {"once", "twice"} =>
        /\ Len(sanitized) = Len(filename)
        /\ \A k \in 1..Len(sanitized) : sanitized[k] \notin BadCodePoints
        /\ \A k \in 1..Len(filename) :
              IF filename[k] \in BadCodePoints
              THEN sanitized[k] = Underscore
              ELSE sanitized[k] = filename[k]
    /\ sanPhase = "twice" => resanitized = sanitized

\* A name with a denylisted character between two kept ones, sanitized twice.
C8_Witness ==
    /\ sanPhase = "twice"
    /\ Len(filename) = 3
    /\ filename[1] = 97
    /\ filename[2] = 8217
    /\ filename[3] = 95
    /\ sanitized = <<97, 95, 95>>

(***************************************************************************)
(* get_mail_message_flag (lines 46-57) and get_imap_filter (lines 60-79).  *)
(***************************************************************************)
\* imap_tools.MailMessageFlags
SEEN == "\\Seen"
ANSWERED == "\\Answered"
FLAGGED == "\\Flagged"
DELETED == "\\Deleted"
DRAFT == "\\Draft"
RECENT == "\\Recent"
MailMessageFlags_all == {SEEN, ANSWERED, FLAGGED, DELETED, DRAFT, RECENT}

\* The four flag kinds a directive may name.
DirectiveFlags == {ANSWERED, FLAGGED, DELETED, SEEN}

\* str.upper() on the MAIL_MESSAGE_FLAG values the model draws.
Upper(s) ==
    CASE s = "seen" -> "SEEN"
      [] s = "deleted" -> "DELETED"
      [] OTHER -> s

\* A plausible bug: flag_map gains an "UNDELETED" entry, by analogy with "UNFLAGGED".
get_mail_message_flag_undeleted(MAIL_MESSAGE_FLAG) ==
    LET flag_str == Upper(IF MAIL_MESSAGE_FLAG = None THEN "SEEN" ELSE MAIL_MESSAGE_FLAG)
    IN CASE flag_str = "ANSWERED" -> <<ANSWERED, TRUE>>
         [] flag_str = "FLAGGED" -> <<FLAGGED, TRUE>>
         [] flag_str = "UNFLAGGED" -> <<FLAGGED, FALSE>>
         [] flag_str = "DELETED" -> <<DELETED, TRUE>>
         [] flag_str = "UNDELETED" -> <<DELETED, FALSE>>
         [] flag_str = "SEEN" -> <<SEEN, TRUE>>
         [] OTHER -> <<SEEN, TRUE>>

\* MAIL_MESSAGE_FLAG is the environment variable, None when it is not set.
get_mail_message_flag(MAIL_MESSAGE_FLAG) ==
    LET flag_str == Upper(IF MAIL_MESSAGE_FLAG = None THEN "SEEN" ELSE MAIL_MESSAGE_FLAG)
    IN CASE flag_str = "ANSWERED" -> <<ANSWERED, TRUE>>
         [] flag_str = "FLAGGED" -> <<FLAGGED, TRUE>>
         [] flag_str = "UNFLAGGED" -> <<FLAGGED, FALSE>>
         [] flag_str = "DELETED" -> <<DELETED, TRUE>>
         [] flag_str = "SEEN" -> <<SEEN, TRUE>>
         [] OTHER -> <<SEEN, TRUE>>

\* A search criteria: AND(seen=b), AND(answered=b), AND(flagged=b), AND(all=True),
\* or the raw IMAP_FILTER string.
Criteria(k, v) == [key |-> k, val |-> v]
Return(v) == [raised |-> FALSE, value |-> v]
RaiseValueError == [raised |-> TRUE, value |-> Criteria("ValueError", "")]

\* `if filter_criteria:` -- None and the empty string are false.
Truthy(str) == str # None /\ str # ""

\* A plausible bug: the derived predicate selects the flag's desired state
\* instead of its negation.
get_imap_filter_same(mail_message_flag, IMAP_FILTER) ==
    LET flag == mail_message_flag[1]
        state == mail_message_flag[2]
    IN IF Truthy(IMAP_FILTER) THEN Return(Criteria("raw", IMAP_FILTER))
       ELSE IF flag = SEEN THEN Return(Criteria("seen", state))
       ELSE IF flag = ANSWERED THEN Return(Criteria("answered", state))
       ELSE IF flag = FLAGGED THEN Return(Criteria("flagged", state))
       ELSE IF flag = DELETED /\ state THEN Return(Criteria("all", TRUE))
       ELSE RaiseValueError

\* IMAP_FILTER is the environment variable, None when it is not set.
get_imap_filter(mail_message_flag, IMAP_FILTER) ==
    LET flag == mail_message_flag[1]
        state == mail_message_flag[2]
    IN IF Truthy(IMAP_FILTER) THEN Return(Criteria("raw", IMAP_FILTER))
       ELSE IF flag = SEEN THEN Return(Criteria("seen", ~state))
       ELSE IF flag = ANSWERED THEN Return(Criteria("answered", ~state))
       ELSE IF flag = FLAGGED THEN Return(Criteria("flagged", ~state))
       ELSE IF flag = DELETED /\ state THEN Return(Criteria("all", TRUE))
       ELSE RaiseValueError

\* The IMAP_FILTER values the model draws.
Overrides == {None, "", "ALL", "UNSEEN", "SEEN", "FLAGGED", "UNANSWERED"}

FilterInit ==
    /\ fDirective \in DirectiveFlags \X BOOLEAN
    /\ fOverride \in Overrides
    /\ fResult = Return(Criteria("", ""))
    /\ fPhase = "in"
    /\ SanOff
    /\ RunOff

\* get_imap_filter(fDirective) with IMAP_FILTER = fOverride
DeriveFilter ==
    /\ fPhase = "in"
    /\ fResult' = get_imap_filter(fDirective, fOverride)
    /\ fPhase' = "out"
    /\ UNCHANGED <<fDirective, fOverride, sanVars, envVars, serverVars, runVars>>

FilterNext == DeriveFilter

FilterSpec == FilterInit /\ [][FilterNext]_vars

\* The key of the search predicate on a flag kind.
KeyOf(flag) ==
    CASE flag = SEEN -> "seen"
      [] flag = ANSWERED -> "answered"
      [] flag = FLAGGED -> "flagged"

\* C7: with a non-empty override get_imap_filter returns the override and does
\* not raise; with none it returns, for Seen, Answered and Flagged, the
\* predicate on the negation of the desired state, for (Deleted, true) the
\* match-all predicate, and for (Deleted, false) it raises.
C7_DeriveFilter ==
    fPhase = "out" =>
        IF fOverride \notin {None, ""}
        THEN /\ ~fResult.raised
             /\ fResult.value.key = "raw"
             /\ fResult.value.val = fOverride
        ELSE IF fDirective[1] \in {SEEN, ANSWERED, FLAGGED}
        THEN /\ ~fResult.raised
             /\ fResult.value.key = KeyOf(fDirective[1])
             /\ fResult.value.val = (fDirective[2] = FALSE)
        ELSE IF fDirective = <<DELETED, TRUE>>
        THEN /\ ~fResult.raised
             /\ fResult.value.key = "all"
        ELSE fResult.raised

\* (Deleted, false) with no override: the call raised.
C7_Witness ==
    /\ fPhase = "out"
    /\ fDirective = <<DELETED, FALSE>>
    /\ fOverride = None
    /\ fResult.raised

(***************************************************************************)
(* The renderer adapter html_to_pdf (lines 82-113).  What pdfkit does with *)
(* a payload is the environment's choice: it writes the file, or raises an *)
(* exception of some class with some text.  A text is a sequence of        *)
(* fragments; `error in str(e)` is a fragment being one of the texts.      *)
(***************************************************************************)
PDF_CONTENT_ERRORS ==
    { "ContentNotFoundError", "ContentOperationNotPermittedError", "UnknownContentError",
      "RemoteHostClosedError", "ConnectionRefusedError", "Server refused a stream" }

NotCalled == [kind |-> "none", cls |-> "", text |-> <<>>]
Written == [kind |-> "ok", cls |-> "", text |-> <<>>]
Raises(c, t) == [kind |-> "error", cls |-> c, text |-> t]

\* The renderer's outcomes the model draws.  "Exception" is any class that is
\* not an OSError.
RenderOutcomes ==
    { Written,
      Raises("OSError", <<"wkhtmltopdf reported an error:", "ContentNotFoundError">>),
      Raises("OSError", <<"No wkhtmltopdf executable found">>),
      Raises("Exception", <<"wkhtmltopdf reported an error:", "UnknownContentError">>),
      Raises("Exception", <<"expected str, bytes or os.PathLike object">>) }

\* any(error in str(e) for error in PDF_CONTENT_ERRORS)
IsContentError(text) ==
    \E error \in PDF_CONTENT_ERRORS : \E k \in 1..Len(text) : text[k] = error

\* A plausible bug: the classification is lost and every renderer error is re-raised.
html_to_pdf_reraise(outcome) ==
    IF outcome.kind = "ok" THEN "path" ELSE outcome.cls

\* A plausible bug: every OSError is taken for a content error.
html_to_pdf_any_oserror(outcome) ==
    IF outcome.kind = "ok" THEN "path"
    ELSE IF outcome.cls = "OSError" THEN "EmailProcessingError"
    ELSE outcome.cls

\* What the call does when the renderer does `outcome`: returns the path, or
\* raises the named exception class.
html_to_pdf(outcome) ==
    IF outcome.kind = "ok" THEN "path"
    ELSE IF outcome.cls = "OSError"
         THEN IF IsContentError(outcome.text) THEN "EmailProcessingError" ELSE "OSError"
         ELSE outcome.cls

(***************************************************************************)
(* The mail server as process_email uses it.                               *)
(***************************************************************************)
\* Whether the message matches a search criteria.
Matches(criteria, uid) ==
    CASE criteria.key = "seen" -> (SEEN \in flags[uid]) = criteria.val
      [] criteria.key = "answered" -> (ANSWERED \in flags[uid]) = criteria.val
      [] criteria.key = "flagged" -> (FLAGGED \in flags[uid]) = criteria.val
      [] criteria.key = "all" -> TRUE
      [] criteria.key = "raw" /\ criteria.val = "ALL" -> TRUE
      [] criteria.key = "raw" /\ criteria.val = "UNSEEN" -> SEEN \notin flags[uid]
      [] OTHER -> FALSE

Take(seq, n) == SubSeq(seq, 1, IF n < Len(seq) THEN n ELSE Len(seq))

UidOrder == [k \in 1..NumMsgs |-> k]

\* A plausible bug: the limit cuts the folder's messages before the criteria
\* is applied to them.
fetch_limit_first(criteria, limit) ==
    SelectSeq(Take(SelectSeq(UidOrder, LAMBDA u : folder[u] = "src"), limit),
              LAMBDA u : Matches(criteria, u))

\* mailbox.fetch(criteria, limit, mark_seen=False): the first `limit` uids of the
\* source folder that match, in uid order.
fetch(criteria, limit) ==
    Take(SelectSeq(UidOrder, LAMBDA u : folder[u] = "src" /\ Matches(criteria, u)), limit)

\* mailbox.flag(uid, flag, value)
SetFlag(fs, flag, value) == IF value THEN fs \cup {flag} ELSE fs \ {flag}

\* A plausible bug: the session is not a context manager and nothing logs it out.
ExitWith_leak(s) == s

\* Leaving the `with MailBox(...).login(...)` block, normally or by an
\* exception, logs the session out.
ExitWith(s) == "closed"

(***************************************************************************)
(* One run: main (lines 198-226) calling process_email (lines 116-195).    *)
(* num_emails_limit is process_email's parameter (default 50); the model   *)
(* draws it from 1..NumMsgs so that it can be smaller than the mailbox.    *)
(***************************************************************************)
EnvFlagValues ==
    {None, "SEEN", "seen", "ANSWERED", "FLAGGED", "UNFLAGGED", "DELETED", "UNDELETED"}

NoFailure == [step |-> "none", at |-> 0]

\* The state of a run before main's first statement.
RunStart ==
    /\ pc = "main"
    /\ mail_msg_flag = <<"", FALSE>>
    /\ filter_criteria = Criteria("", "")
    /\ session = "none"
    /\ batch = <<>>
    /\ idx = 0
    /\ exc = "none"
    /\ failure = NoFailure
    /\ mainResult = "running"
    /\ log = "none"
    /\ rendered = [u \in Msgs |-> NotCalled]
    /\ flagCalls = {}
    /\ moveCalls = {}

Init ==
    /\ SanOff
    /\ FilterOff
    /\ envFlag \in EnvFlagValues
    /\ envFilter \in {None, "ALL"}
    /\ num_emails_limit \in 1..NumMsgs
    /\ attachments \in [Msgs -> BOOLEAN]
    /\ content = [u \in Msgs |-> "good"]
    /\ folder = [u \in Msgs |-> "src"]
    /\ flags \in [Msgs -> {{}, {get_mail_message_flag(envFlag)[1]}}]
    /\ flags0 = flags
    /\ pdfs = {}
    /\ RunStart

passive == <<sanVars, filterVars, envVars>>

\* main, lines 200-209: the flag directive and the filter are computed before
\* the try statement, so an error of get_imap_filter leaves main.
MainConfig ==
    /\ pc = "main"
    /\ LET flag == get_mail_message_flag(envFlag)
           r == get_imap_filter(flag, envFilter)
       IN /\ mail_msg_flag' = flag
          /\ IF r.raised
             THEN /\ mainResult' = "raised"
                  /\ pc' = "exit"
                  /\ UNCHANGED filter_criteria
             ELSE /\ filter_criteria' = r.value
                  /\ pc' = "process_email"
                  /\ UNCHANGED mainResult
    /\ UNCHANGED <<passive, serverVars, flags0, session, batch, idx, exc, failure, log,
                   rendered, pdfs, flagCalls, moveCalls>>

\* process_email, lines 141-146: get_pdfkit_options parses WKHTMLTOPDF_OPTIONS.
ProcessStart ==
    /\ pc = "process_email"
    /\ pc' = "login"
    /\ UNCHANGED <<passive, serverVars, flags0, mail_msg_flag, filter_criteria, session,
                   batch, idx, exc, failure, mainResult, log, rendered, pdfs, flagCalls,
                   moveCalls>>

\* json.loads raises on a malformed WKHTMLTOPDF_OPTIONS (a JSONDecodeError is a
\* ValueError); line 145 is outside the try statement of process_email.
ProcessStartBadOptions ==
    /\ pc = "process_email"
    /\ exc' = "ValueError"
    /\ failure' = [step |-> "options", at |-> 0]
    /\ pc' = "main_except"
    /\ UNCHANGED <<passive, serverVars, flags0, mail_msg_flag, filter_criteria, session,
                   batch, idx, mainResult, log, rendered, pdfs, flagCalls, moveCalls>>

\* An exception leaves the with block (when the session is open) and is
\* wrapped at line 192-193.
Abort(step, uid) ==
    /\ session' = IF session = "open" THEN ExitWith(session) ELSE session
    /\ exc' = "EmailProcessingError"
    /\ failure' = [step |-> step, at |-> uid]
    /\ pc' = "main_except"

\* lines 149-151
LoginOk ==
    /\ pc = "login"
    /\ session' = "open"
    /\ pc' = "fetch"
    /\ UNCHANGED <<passive, serverVars, flags0, mail_msg_flag, filter_criteria, batch, idx,
                   exc, failure, mainResult, log, rendered, pdfs, flagCalls, moveCalls>>

LoginFail ==
    /\ pc = "login"
    /\ Abort("login", 0)
    /\ UNCHANGED <<passive, serverVars, flags0, mail_msg_flag, filter_criteria, batch, idx,
                   mainResult, log, rendered, pdfs, flagCalls, moveCalls>>

\* lines 152-154: the search
FetchOk ==
    /\ pc = "fetch"
    /\ batch' = fetch(filter_criteria, num_emails_limit)
    /\ idx' = 1
    /\ pc' = "loop"
    /\ UNCHANGED <<passive, serverVars, flags0, mail_msg_flag, filter_criteria, session,
                   exc, failure, mainResult, log, rendered, pdfs, flagCalls, moveCalls>>

\* The search, or the fetch of the next message, fails.
FetchFail ==
    /\ \/ pc = "fetch"
       \/ pc = "loop" /\ idx <= Len(batch)
    /\ Abort("fetch", 0)
    /\ UNCHANGED <<passive, serverVars, flags0, mail_msg_flag, filter_criteria, batch, idx,
                   mainResult, log, rendered, pdfs, flagCalls, moveCalls>>

\* A plausible bug: the attachment test is dropped.
HasAttachments_never(uid) == FALSE

\* line 155: `if msg.attachments`
HasAttachments(uid) == attachments[uid]

\* lines 155-157
SkipAttachments ==
    /\ pc = "loop"
    /\ idx <= Len(batch)
    /\ HasAttachments(batch[idx])
    /\ idx' = idx + 1
    /\ UNCHANGED <<passive, serverVars, flags0, mail_msg_flag, filter_criteria, session,
                   batch, pc, exc, failure, mainResult, log, rendered, pdfs, flagCalls,
                   moveCalls>>

\* lines 159-181: the renderer does `outcome` with the message's payload.
RenderStep(outcome) ==
    /\ pc = "loop"
    /\ idx <= Len(batch)
    /\ ~HasAttachments(batch[idx])
    /\ LET uid == batch[idx]
           res == html_to_pdf(outcome)
       IN /\ rendered' = [rendered EXCEPT ![uid] = outcome]
          /\ pdfs' = IF outcome.kind = "ok" THEN pdfs \cup {uid} ELSE pdfs
          /\ IF res = "path"
             THEN /\ pc' = "flag"
                  /\ UNCHANGED <<idx, session, exc, failure>>
             ELSE IF res = "EmailProcessingError"
             THEN /\ idx' = idx + 1
                  /\ UNCHANGED <<pc, session, exc, failure>>
             ELSE /\ Abort("render", uid)
                  /\ UNCHANGED idx
    /\ UNCHANGED <<passive, serverVars, flags0, mail_msg_flag, filter_criteria, batch,
                   mainResult, log, flagCalls, moveCalls>>

Render == \E outcome \in RenderOutcomes : RenderStep(outcome)

\* A plausible bug: a failure of mailbox.flag is swallowed and the move goes on.
FlagFail_swallowed ==
    /\ pc = "flag"
    /\ mail_msg_flag[1] \in MailMessageFlags_all
    /\ flagCalls' = flagCalls \cup {batch[idx]}
    /\ pc' = "move"
    /\ UNCHANGED <<passive, serverVars, flags0, mail_msg_flag, filter_criteria, batch, idx,
                   session, exc, failure, mainResult, log, rendered, pdfs, moveCalls>>

\* lines 183-184
FlagOk ==
    /\ pc = "flag"
    /\ LET uid == batch[idx]
       IN IF mail_msg_flag[1] \in MailMessageFlags_all
          THEN /\ flags' = [flags EXCEPT
                              ![uid] = SetFlag(@, mail_msg_flag[1], mail_msg_flag[2])]
               /\ flagCalls' = flagCalls \cup {uid}
          ELSE UNCHANGED <<flags, flagCalls>>
    /\ pc' = "move"
    /\ UNCHANGED <<passive, folder, flags0, mail_msg_flag, filter_criteria, batch, idx,
                   session, exc, failure, mainResult, log, rendered, pdfs, moveCalls>>

\* mailbox.flag raises: nothing catches it before line 192.
FlagFail ==
    /\ pc = "flag"
    /\ mail_msg_flag[1] \in MailMessageFlags_all
    /\ flagCalls' = flagCalls \cup {batch[idx]}
    /\ Abort("flag", batch[idx])
    /\ UNCHANGED <<passive, serverVars, flags0, mail_msg_flag, filter_criteria, batch, idx,
                   mainResult, log, rendered, pdfs, moveCalls>>

\* lines 185-187
MoveOk ==
    /\ pc = "move"
    /\ folder' = [folder EXCEPT ![batch[idx]] = "tgt"]
    /\ moveCalls' = moveCalls \cup {batch[idx]}
    /\ idx' = idx + 1
    /\ pc' = "loop"
    /\ UNCHANGED <<passive, flags, flags0, mail_msg_flag, filter_criteria, batch, session,
                   exc, failure, mainResult, log, rendered, pdfs, flagCalls>>

\* A plausible bug: a failed move is logged and the loop goes on.
MoveFail_continue ==
    /\ pc = "move"
    /\ moveCalls' = moveCalls \cup {batch[idx]}
    /\ failure' = [step |-> "move", at |-> batch[idx]]
    /\ idx' = idx + 1
    /\ pc' = "loop"
    /\ UNCHANGED <<passive, serverVars, flags0, mail_msg_flag, filter_criteria, batch,
                   session, exc, mainResult, log, rendered, pdfs, flagCalls>>

\* lines 188-189
MoveFail ==
    /\ pc = "move"
    /\ moveCalls' = moveCalls \cup {batch[idx]}
    /\ Abort("move", batch[idx])
    /\ UNCHANGED <<passive, serverVars, flags0, mail_msg_flag, filter_criteria, batch, idx,
                   mainResult, log, rendered, pdfs, flagCalls>>

\* The loop is over: the with block is left and line 195 prints FIN.
LoopEnd ==
    /\ pc = "loop"
    /\ idx > Len(batch)
    /\ session' = ExitWith(session)
    /\ pc' = "main_return"
    /\ UNCHANGED <<passive, serverVars, flags0, mail_msg_flag, filter_criteria, batch, idx,
                   exc, failure, mainResult, log, rendered, pdfs, flagCalls, moveCalls>>

\* main, lines 221-226: the message printed for an exception class.
MainHandler(e) ==
    CASE e = "EmailProcessingError" -> "Error during email processing"
      [] e = "ValueError" -> "Configuration error"
      [] OTHER -> "An unexpected error occurred"

MainExcept ==
    /\ pc = "main_except"
    /\ log' = MainHandler(exc)
    /\ mainResult' = "returned"
    /\ pc' = "exit"
    /\ UNCHANGED <<passive, serverVars, flags0, mail_msg_flag, filter_criteria, batch, idx,
                   session, exc, failure, rendered, pdfs, flagCalls, moveCalls>>

\* process_email returned; main returns.
MainReturn ==
    /\ pc = "main_return"
    /\ mainResult' = "returned"
    /\ pc' = "exit"
    /\ UNCHANGED <<passive, serverVars, flags0, mail_msg_flag, filter_criteria, batch, idx,
                   session, exc, failure, log, rendered, pdfs, flagCalls, moveCalls>>

Next ==
    \/ MainConfig
    \/ ProcessStart
    \/ ProcessStartBadOptions
    \/ LoginOk
    \/ LoginFail
    \/ FetchOk
    \/ FetchFail
    \/ SkipAttachments
    \/ Render
    \/ FlagOk
    \/ FlagFail
    \/ MoveOk
    \/ MoveFail
    \/ LoopEnd
    \/ MainExcept
    \/ MainReturn

Spec == Init /\ [][Next]_vars

(***************************************************************************)
(* Properties of one run (Spec).                                           *)
(***************************************************************************)
InBatch(uid) == \E k \in 1..Len(batch) : batch[k] = uid
PosOf(uid) == CHOOSE k \in 1..Len(batch) : batch[k] = uid

\* A step of the loop body was taken for the message.
Touched(uid) == rendered[uid] # NotCalled \/ uid \in flagCalls \/ uid \in moveCalls

\* The server holds the message as it was when the run started.
AsBefore(uid) == folder[uid] = "src" /\ flags[uid] = flags0[uid]

\* The message's flag is in the state the directive asks for.
FlagHolds(uid) == (mail_msg_flag[1] \in flags[uid]) = mail_msg_flag[2]

\* The text of a renderer error names a recognized content error.
HasContentErrorText(outcome) ==
    /\ outcome.kind = "error"
    /\ \E k \in 1..Len(outcome.text) : outcome.text[k] \in PDF_CONTENT_ERRORS

\* No step of the loop body was taken for any message fetched after uid.
LaterUntouched(uid) ==
    \A v \in Msgs : (InBatch(v) /\ PosOf(v) > PosOf(uid)) => ~Touched(v) /\ AsBefore(v)

\* C1: a fetched message with attachments is never rendered, flagged or
\* moved: it stays in the source folder with its flags and gets no PDF.
C1_AttachmentsUntouched ==
    \A u \in Msgs :
        attachments[u] =>
            /\ rendered[u] = NotCalled
            /\ u \notin flagCalls
            /\ u \notin moveCalls
            /\ u \notin pdfs
            /\ AsBefore(u)

\* A finished run whose first fetched message has attachments and whose
\* second was moved.
C1_Witness ==
    /\ pc = "exit"
    /\ Len(batch) >= 2
    /\ attachments[batch[1]]
    /\ folder[batch[2]] = "tgt"

\* C2 as claimed: whatever error of the renderer names a content error, the
\* run does not fail at that message, goes on to the next one and leaves the
\* message unflagged and unmoved.
C2_AnyContentError ==
    \A u \in Msgs :
        HasContentErrorText(rendered[u]) =>
            /\ failure.at # u
            /\ idx > PosOf(u)
            /\ u \notin flagCalls
            /\ u \notin moveCalls
            /\ AsBefore(u)

\* C2, amended: when the renderer raises an OSError whose text names a content
\* error, the run does not fail at that message, goes on to the next one and
\* leaves the message unflagged and unmoved.
C2_OSErrorContentError ==
    \A u \in Msgs :
        (HasContentErrorText(rendered[u]) /\ rendered[u].cls = "OSError") =>
            /\ failure.at # u
            /\ idx > PosOf(u)
            /\ u \notin flagCalls
            /\ u \notin moveCalls
            /\ AsBefore(u)

\* Three candidates, the second fails with a content error, the other two are
\* moved and the run ends without raising.
C2_Witness ==
    /\ pc = "exit"
    /\ exc = "none"
    /\ mainResult = "returned"
    /\ Len(batch) = 3
    /\ HasContentErrorText(rendered[batch[2]])
    /\ rendered[batch[2]].cls = "OSError"
    /\ folder[batch[1]] = "tgt"
    /\ folder[batch[3]] = "tgt"
    /\ pdfs = {batch[1], batch[3]}

\* C3: when the renderer's error names no content error, process_email raises
\* EmailProcessingError at that message, which is neither flagged nor moved;
\* no later message is rendered, flagged or moved, and the earlier ones that
\* were flagged and moved stay so.
C3_FatalRenderError ==
    \A u \in Msgs :
        (rendered[u].kind = "error" /\ ~HasContentErrorText(rendered[u])) =>
            /\ exc = "EmailProcessingError"
            /\ failure = [step |-> "render", at |-> u]
            /\ u \notin flagCalls
            /\ u \notin moveCalls
            /\ AsBefore(u)
            /\ LaterUntouched(u)
            /\ \A v \in moveCalls :
                  /\ PosOf(v) < PosOf(u)
                  /\ folder[v] = "tgt"
                  /\ v \in flagCalls
                  /\ FlagHolds(v)

\* The second of three candidates fails fatally after the first was moved.
C3_Witness ==
    /\ pc = "exit"
    /\ Len(batch) = 3
    /\ failure = [step |-> "render", at |-> batch[2]]
    /\ folder[batch[1]] = "tgt"
    /\ ~attachments[batch[3]]

\* mailbox.move was called for the message and did not move it.
MoveFailed(uid) == uid \in moveCalls /\ folder[uid] = "src"

\* C4: when mailbox.move fails for a rendered message, process_email raises
\* EmailProcessingError and no later message is rendered, flagged or moved.
C4_MoveFailureAborts ==
    \A u \in Msgs :
        (MoveFailed(u) /\ rendered[u] = Written) =>
            /\ exc = "EmailProcessingError"
            /\ failure.at = u
            /\ LaterUntouched(u)

\* The move of the first of several candidates failed and the run is over.
C4_Witness ==
    /\ pc = "exit"
    /\ Len(batch) >= 2
    /\ MoveFailed(batch[1])
    /\ rendered[batch[1]] = Written
    /\ ~attachments[batch[2]]

\* The run has left process_email.
LeftProcessEmail == pc \in {"main_except", "main_return", "exit"}

\* C5: process_email is never left with the session open, and once the
\* session is released the mailbox is not used again.
C5_SessionReleased ==
    /\ [](LeftProcessEmail => session # "open")
    /\ [][session = "closed" =>
            UNCHANGED <<session, folder, flags, batch, flagCalls, moveCalls>>]_vars

\* The fetch failed after a message had been moved, and the session is closed.
C5_Witness ==
    /\ pc = "exit"
    /\ session = "closed"
    /\ failure.step = "fetch"
    /\ moveCalls # {}

\* C6: main never lets a failure out: it ends by returning, with a message
\* printed for whatever process_email raised.
C6_MainReturns ==
    /\ mainResult # "raised"
    /\ pc = "exit" =>
          /\ mainResult = "returned"
          /\ exc # "none" => log # "none"
          /\ exc = "EmailProcessingError" => log = "Error during email processing"
          /\ exc = "ValueError" => log = "Configuration error"

\* process_email raised a ValueError and main printed it and returned.
C6_Witness ==
    /\ pc = "exit"
    /\ exc = "ValueError"
    /\ log = "Configuration error"
    /\ mainResult = "returned"

\* The loop is done with the message: skipped, failed recoverably, or moved.
Finished(uid) ==
    \/ attachments[uid]
    \/ rendered[uid].kind = "error" /\ failure.at # uid
    \/ folder[uid] = "tgt"

\* C9: messages are handled one at a time in fetch order, each by render, then
\* flag, then move: a flagged message was rendered, a moved one was flagged
\* without error, no step of a message is taken before the one fetched before
\* it is finished, and a failed flag call leaves the message unmoved.
C9_StepOrder ==
    /\ \A k \in 1..(Len(batch) - 1) : batch[k] < batch[k + 1]
    /\ \A u \in Msgs : Touched(u) => InBatch(u) /\ PosOf(u) <= idx
    /\ \A u \in flagCalls : rendered[u] = Written /\ u \in pdfs
    /\ \A u \in moveCalls :
          /\ u \in flagCalls
          /\ FlagHolds(u)
          /\ failure # [step |-> "flag", at |-> u]
    /\ \A u \in Msgs : folder[u] = "tgt" => u \in moveCalls
    /\ failure.step = "flag" =>
          /\ failure.at \notin moveCalls
          /\ folder[failure.at] = "src"
    /\ \A u, v \in Msgs :
          (InBatch(u) /\ InBatch(v) /\ PosOf(u) < PosOf(v) /\ Touched(v)) => Finished(u)

\* The flag call of the second candidate failed after the first was moved.
C9_Witness ==
    /\ pc = "exit"
    /\ Len(batch) >= 2
    /\ failure = [step |-> "flag", at |-> batch[2]]
    /\ folder[batch[1]] = "tgt"
    /\ folder[batch[2]] = "src"

(***************************************************************************)
(* Repeated runs: a scheduler starts main again after it returned.  The    *)
(* mailbox and the output directory persist; the renderer's verdict on a   *)
(* message is the same in every run (content); the filter is the derived   *)
(* one and nothing fails fatally.                                          *)
(***************************************************************************)
\* One MAIL_MESSAGE_FLAG value for each shape of directive: a flag that is set
\* (the default, SEEN), a flag that is cleared, and the match-all filter.
LiveEnvFlagValues == {None, "UNFLAGGED", "DELETED"}

LiveInit ==
    /\ SanOff
    /\ FilterOff
    /\ envFlag \in LiveEnvFlagValues
    /\ envFilter = None
    /\ num_emails_limit \in 1..NumMsgs
    /\ attachments \in [Msgs -> BOOLEAN]
    /\ content \in [Msgs -> {"good", "bad"}]
    /\ \A u \in Msgs : attachments[u] => content[u] = "good"
    /\ folder = [u \in Msgs |-> "src"]
    /\ flags \in [Msgs -> {{}, {get_mail_message_flag(envFlag)[1]}}]
    /\ flags0 = flags
    /\ pdfs = {}
    /\ RunStart

\* What the renderer does with the message's payload, in every run.
RendererOn(uid) ==
    IF content[uid] = "good" THEN Written
    ELSE Raises("OSError", <<"wkhtmltopdf reported an error:", "ContentNotFoundError">>)

LiveRender ==
    \E outcome \in RenderOutcomes :
        /\ pc = "loop"
        /\ idx <= Len(batch)
        /\ outcome = RendererOn(batch[idx])
        /\ RenderStep(outcome)

\* The scheduler starts the next run.
RunAgain ==
    /\ pc = "exit"
    /\ pc' = "main"
    /\ mail_msg_flag' = <<"", FALSE>>
    /\ filter_criteria' = Criteria("", "")
    /\ session' = "none"
    /\ batch' = <<>>
    /\ idx' = 0
    /\ exc' = "none"
    /\ failure' = NoFailure
    /\ mainResult' = "running"
    /\ log' = "none"
    /\ rendered' = [u \in Msgs |-> NotCalled]
    /\ flagCalls' = {}
    /\ moveCalls' = {}
    /\ flags0' = flags
    /\ UNCHANGED <<passive, serverVars, pdfs>>

LiveNext ==
    \/ MainConfig
    \/ ProcessStart
    \/ LoginOk
    \/ FetchOk
    \/ SkipAttachments
    \/ LiveRender
    \/ FlagOk
    \/ MoveOk
    \/ LoopEnd
    \/ MainReturn
    \/ RunAgain

\* A sequential program takes its next step, and the scheduler its next run.
LiveSpec == LiveInit /\ [][LiveNext]_vars /\ WF_vars(LiveNext)

\* The directive and the filter every run of LiveSpec derives.
Directive == get_mail_message_flag(envFlag)
DerivedCriteria == get_imap_filter(Directive, None).value

\* In the source folder, selected by the filter, without attachments, renderable.
Candidate(uid) ==
    /\ folder[uid] = "src"
    /\ Matches(DerivedCriteria, uid)
    /\ ~attachments[uid]
    /\ content[uid] = "good"

\* In the source folder, selected by the filter, and skipped or failing in every run.
Blocker(uid) ==
    /\ folder[uid] = "src"
    /\ Matches(DerivedCriteria, uid)
    /\ attachments[uid] \/ content[uid] = "bad"

\* Rendered, flagged and moved.
Processed(uid) ==
    /\ folder[uid] = "tgt"
    /\ uid \in pdfs
    /\ (Directive[1] \in flags[uid]) = Directive[2]

\* No message of the batch was already in the target folder when it was fetched.
NotSelectedAgain ==
    \A k \in 1..Len(batch) : folder[batch[k]] = "tgt" => batch[k] \in moveCalls

\* C10 as claimed: every candidate is eventually processed, whatever else the
\* mailbox holds.
C10_EveryCandidateProcessed ==
    \A u \in Msgs : Candidate(u) ~> Processed(u)

\* C10, amended: a candidate with fewer than num_emails_limit blockers before
\* it in fetch order is eventually processed, and a moved message is never
\* fetched again.
C10_UnblockedCandidateProcessed ==
    /\ \A u \in Msgs :
          (Candidate(u) /\ Cardinality({v \in Msgs : v < u /\ Blocker(v)}) < num_emails_limit)
              ~> Processed(u)
    /\ []NotSelectedAgain

\* With a limit of 2 and a message with attachments first, the third message
\* was processed by a later run than the second.
C10_Witness ==
    /\ pc = "exit"
    /\ num_emails_limit = 2
    /\ attachments[1]
    /\ batch = <<1, 3>>
    /\ Processed(2)
    /\ Processed(3)

====
